---- MODULE Spec2Model ----
(***************************************************************************)
(* Model of scraper.py: the Condition / Listing / Store value types and    *)
(* the TCGPlayerParser page loop (scrape_prices, parse_page).              *)
(*                                                                         *)
(* Money is counted in whole cents, so "$0.10" is 10 and "$3.99" is 399;   *)
(* price_per_card, a quotient, is kept as the pair <<total_price,          *)
(* total_quantity>> and compared by cross-multiplication.                  *)
(***************************************************************************)
EXTENDS Integers, Sequences, FiniteSets, TLC

\* Bounds of the exploration.
MaxRows == 2      \* listing-item elements met over the whole run
MaxPages == 2     \* pages the navigator can expose

(***************************************************************************)
(* Values                                                                  *)
(***************************************************************************)
\* Python's None, as the result of find_price
None == -1
\* re.search(...) found nothing: .group on None raises AttributeError
NoMatch == -2
\* find_element raised NoSuchElementException
Absent == "<absent>"
\* free_shipping = None, the text handed to find_price when the element is absent
NoneText == "<None>"

\* class Condition(Enum): the ten members, name and value
Condition ==
  { [name |-> "NEAR_MINT",              value |-> "Near Mint"],
    [name |-> "LIGHTLY_PLAYED",         value |-> "Lightly Played"],
    [name |-> "MODERATELY_PLAYED",      value |-> "Moderately Played"],
    [name |-> "HEAVILY_PLAYED",         value |-> "Heavily Played"],
    [name |-> "DAMAGED",                value |-> "Damaged"],
    [name |-> "NEAR_MINT_FOIL",         value |-> "Near Mint Foil"],
    [name |-> "LIGHTLY_PLAYED_FOIL",    value |-> "Lightly Played Foil"],
    [name |-> "MODERATELY_PLAYED_FOIL", value |-> "Moderately Played Foil"],
    [name |-> "HEAVILY_PLAYED_FOIL",    value |-> "Heavily Played Foil"],
    [name |-> "DAMAGED_FOIL",           value |-> "Damaged Foil"] }

\* The value Condition(text) raises ValueError for
InvalidCondition == [name |-> "ValueError", value |-> "ValueError"]

ConditionLabels == { c.value : c \in Condition }

\* Condition(text): lookup of the member by value
ConditionDefaulting(text) ==
  IF text \in ConditionLabels
    THEN CHOOSE c \in Condition : c.value = text
    ELSE CHOOSE c \in Condition : c.name = "NEAR_MINT"

ConditionFromText(text) ==
  IF text \in ConditionLabels
    THEN CHOOSE c \in Condition : c.value = text
    ELSE InvalidCondition

\* str == Enum member: Condition is a plain Enum (no str mixin), so a member
\* never compares equal to a text, whatever the text
StrEqualsMember(text, member) == FALSE

(***************************************************************************)
(* What the page can carry                                                 *)
(***************************************************************************)
SellerNames == {"Acme", "bad", "Bad"}
blacklist == {"Bad"}

PriceTexts == {"$0.10", "$0.20", "Call"}
QuantityTexts == {"2 available", "4 available"}
ConditionTexts == {"Near Mint", "Near Mint Foil", "Mint"}
ShippingTexts == {Absent, "+ $0.15 Shipping"}
FreeShippingTexts == {Absent, "$0.40 minimum"}

RawRows ==
  [seller_name : SellerNames, price : PriceTexts, quantity : QuantityTexts,
   condition : ConditionTexts, shipping_price : ShippingTexts,
   free_shipping : FreeShippingTexts]

\* re.search(r"(\d+(\.\d{2})?)", s).group(1) as cents, on the texts above
FirstDecimal(s) ==
  CASE s = "$0.10" -> 10
    [] s = "$0.20" -> 20
    [] s = "$3.99" -> 399
    [] s = "+ $0.15 Shipping" -> 15
    [] s = "$0.40 minimum" -> 40
    [] OTHER -> NoMatch

\* int(re.search(r"\d+", s).group(0)) on the texts above
FirstInteger(s) ==
  CASE s = "2 available" -> 2
    [] s = "4 available" -> 4
    [] OTHER -> NoMatch

find_price(price_string) ==
  IF price_string = NoneText THEN None ELSE FirstDecimal(price_string)

(***************************************************************************)
(* Listing and Store                                                       *)
(***************************************************************************)
Listing(condition, price, quantity) ==
  [condition |-> condition, price |-> price, quantity |-> quantity]

Listing_total_price(l) == l.price * l.quantity

Store(name, shipping, free_threshold) ==
  [name |-> name, shipping |-> shipping, free_threshold |-> free_threshold,
   listings |-> <<>>]

add_listing(s, condition, price, quantity) ==
  [s EXCEPT !.listings = Append(@, Listing(condition, price, quantity))]

RECURSIVE SumTotals(_)
SumTotals(ls) ==
  IF ls = <<>> THEN 0 ELSE Listing_total_price(Head(ls)) + SumTotals(Tail(ls))

RECURSIVE SumQuantities(_)
SumQuantities(ls) ==
  IF ls = <<>> THEN 0 ELSE Head(ls).quantity + SumQuantities(Tail(ls))

card_price(s) == SumTotals(s.listings)

achieved_free_shipping(s) ==
  IF s.free_threshold = None THEN FALSE ELSE card_price(s) >= s.free_threshold

shipping_price_le(s) ==
  IF s.free_threshold = None THEN s.shipping
  ELSE IF card_price(s) <= s.free_threshold THEN s.shipping
  ELSE 0

shipping_price(s) ==
  IF s.free_threshold = None THEN s.shipping
  ELSE IF card_price(s) < s.free_threshold THEN s.shipping
  ELSE 0

money_to_free_shipping(s) ==
  IF s.free_threshold = None THEN None
  ELSE IF card_price(s) > s.free_threshold THEN None
  ELSE s.free_threshold - card_price(s)

total_price(s) == card_price(s) + shipping_price(s)

total_quantity(s) == SumQuantities(s.listings)

\* total_price / total_quantity, as numerator and denominator
price_per_card(s) == <<total_price(s), total_quantity(s)>>

RatLess(p, q) == p[1] * q[2] < q[1] * p[2]
RatEq(p, q) == p[1] * q[2] = q[1] * p[2]

has_foil(s) ==
  \E i \in 1..Len(s.listings) :
    s.listings[i].condition.name \in
      {"NEAR_MINT_FOIL", "LIGHTLY_PLAYED_FOIL", "MODERATELY_PLAYED_FOIL",
       "HEAVILY_PLAYED_FOIL", "DAMAGED_FOIL"}

\* Store.__lt__
Store_lt(a, b) ==
  IF RatEq(price_per_card(a), price_per_card(b))
    THEN total_quantity(a) < total_quantity(b)
    ELSE RatLess(price_per_card(a), price_per_card(b))

\* Store.__eq__
Store_eq(a, b) == RatEq(price_per_card(a), price_per_card(b))

\* Store.__str__: the lines of the rendering
Store_str(s) ==
  <<[kind |-> "header", name |-> s.name, per |-> price_per_card(s),
     total |-> total_price(s), quantity |-> total_quantity(s)]>>
  \o (IF achieved_free_shipping(s)
        THEN <<[kind |-> "* FREE SHIPPING *"]>> ELSE <<>>)
  \o [i \in 1..Len(s.listings) |->
        [kind |-> "listing", condition |-> s.listings[i].condition.value,
         price |-> s.listings[i].price, quantity |-> s.listings[i].quantity]]
  \o (IF money_to_free_shipping(s) # None
        THEN IF money_to_free_shipping(s) < s.shipping
               THEN <<[kind |-> "FREE SHIPPING IN",
                       amount |-> money_to_free_shipping(s)]>>
               ELSE <<>>
        ELSE <<>>)

HasLine(text, kind) == \E i \in 1..Len(text) : text[i].kind = kind

(***************************************************************************)
(* list.sort() over Store.__lt__                                           *)
(***************************************************************************)
\* x joins an already sorted list behind every element it is not less than
InsertSorted(x, sorted) ==
  LET after == { i \in 1..Len(sorted) : Store_lt(x, sorted[i]) }
      k == IF after = {} THEN Len(sorted) + 1
           ELSE CHOOSE i \in after : \A j \in after : i <= j
  IN SubSeq(sorted, 1, k - 1) \o <<x>> \o SubSeq(sorted, k, Len(sorted))

RECURSIVE list_sort(_)
list_sort(seq) ==
  IF seq = <<>> THEN <<>>
  ELSE InsertSorted(seq[Len(seq)], list_sort(SubSeq(seq, 1, Len(seq) - 1)))

\* a comparison divides by total_quantity; a list of one is never compared
SortRaises(seq) ==
  Len(seq) >= 2 /\ \E i \in 1..Len(seq) : total_quantity(seq[i]) = 0

(***************************************************************************)
(* TCGPlayerParser                                                         *)
(***************************************************************************)
VARIABLES
  stores,       \* self.stores, in insertion order of the keys
  results,      \* the list scrape_prices returns
  page,         \* the page the driver shows
  pc,           \* where scrape_prices is
  pending,      \* elements of `listings` the for loop has not visited yet
  rowsSeen,     \* elements visited over the run
  has_next,     \* the last answer of can_click_next
  parsedPages,  \* pages parse_page was called on, in call order
  error,        \* the exception that left scrape_prices, "" when none
  last          \* seller and condition text of the row visited last

vars == <<stores, results, page, pc, pending, rowsSeen, has_next,
          parsedPages, error, last>>

keys(ss) == { ss[i].name : i \in 1..Len(ss) }

is_blacklisted_never(seller_name) == FALSE

is_blacklisted(seller_name) == seller_name \in blacklist

\* condition not in (listing.condition for listing in listings)
condition_not_in(condition, listings) ==
  ~ \E i \in 1..Len(listings) : StrEqualsMember(condition, listings[i].condition)

\* the tail of the loop body with the listing attached in an else branch
fold_row_else(ss, seller_name, shipping, free_shipping, condition, price, quantity) ==
  IF seller_name \notin keys(ss)
    THEN [stores |-> Append(ss, Store(seller_name, shipping, free_shipping)),
          error |-> ""]
    ELSE LET i == CHOOSE j \in 1..Len(ss) : ss[j].name = seller_name
         IN IF ~ condition_not_in(condition, ss[i].listings)
              THEN [stores |-> ss, error |-> ""]
              ELSE IF ConditionFromText(condition) = InvalidCondition
                THEN [stores |-> ss, error |-> "ValueError"]
                ELSE [stores |-> [ss EXCEPT ![i] =
                                    add_listing(@, ConditionFromText(condition),
                                                price, quantity)],
                      error |-> ""]

\* the tail of the loop body: create the Store, dedup check, add_listing
fold_row(ss, seller_name, shipping, free_shipping, condition, price, quantity) ==
  LET created == IF seller_name \notin keys(ss)
                   THEN Append(ss, Store(seller_name, shipping, free_shipping))
                   ELSE ss
      i == CHOOSE j \in 1..Len(created) : created[j].name = seller_name
  IN IF ~ condition_not_in(condition, created[i].listings)
       THEN [stores |-> created, error |-> ""]
       ELSE IF ConditionFromText(condition) = InvalidCondition
         THEN [stores |-> created, error |-> "ValueError"]
         ELSE [stores |-> [created EXCEPT ![i] =
                             add_listing(@, ConditionFromText(condition),
                                         price, quantity)],
               error |-> ""]

\* one pass of the for loop of parse_page over one listing-item
loop_body(ss, row) ==
  LET price == find_price(row.price)
      shipping == find_price(IF row.shipping_price = Absent
                               THEN "$3.99" ELSE row.shipping_price)
      free_shipping == find_price(IF row.free_shipping = Absent
                                    THEN NoneText ELSE row.free_shipping)
      quantity == FirstInteger(row.quantity)
  IN IF NoMatch \in {price, shipping, free_shipping, quantity}
       THEN [stores |-> ss, error |-> "AttributeError"]
       ELSE IF is_blacklisted(row.seller_name)
         THEN [stores |-> ss, error |-> ""]
         ELSE fold_row(ss, row.seller_name, shipping, free_shipping,
                       row.condition, price, quantity)

\* the branch scrape_prices takes on the answer of can_click_next
after_page_return(answer) == "return"

after_page(answer) == IF answer THEN "click_next" ELSE "return"

Init ==
  /\ stores = <<>>
  /\ results = <<>>
  /\ page = 1
  /\ pc = "parse_page"
  /\ pending = 0
  /\ rowsSeen = 0
  /\ has_next = FALSE
  /\ parsedPages = <<>>
  /\ error = ""
  /\ last = [seller |-> "", condition |-> ""]

\* parse_page starts: find_elements returns the listing-items of the page
FindListings(n) ==
  /\ pc = "parse_page"
  /\ rowsSeen + n <= MaxRows
  /\ pending' = n
  /\ parsedPages' = Append(parsedPages, page)
  /\ pc' = "rows"
  /\ UNCHANGED <<stores, results, page, rowsSeen, has_next, error, last>>

\* the for loop visits the next listing-item
ParseRow(row) ==
  /\ pc = "rows"
  /\ pending > 0
  /\ LET r == loop_body(stores, row)
     IN /\ stores' = r.stores
        /\ error' = r.error
        /\ pc' = IF r.error = "" THEN "rows" ELSE "aborted"
  /\ pending' = pending - 1
  /\ rowsSeen' = rowsSeen + 1
  /\ last' = [seller |-> row.seller_name, condition |-> row.condition]
  /\ UNCHANGED <<results, page, has_next, parsedPages>>

\* parse_page returns and scrape_prices calls can_click_next
CanClickNext(answer) ==
  /\ pc = "rows"
  /\ pending = 0
  /\ answer => page < MaxPages
  /\ has_next' = answer
  /\ pc' = after_page(answer)
  /\ UNCHANGED <<stores, results, page, pending, rowsSeen, parsedPages,
                 error, last>>

\* click_next, then the sleep
ClickNext ==
  /\ pc = "click_next"
  /\ page' = page + 1
  /\ pc' = "parse_page"
  /\ UNCHANGED <<stores, results, pending, rowsSeen, has_next, parsedPages,
                 error, last>>

\* results = list(self.stores.values()); results.sort(); return results
ReturnResults ==
  /\ pc = "return"
  /\ IF SortRaises(stores)
       THEN /\ pc' = "aborted"
            /\ error' = "ZeroDivisionError"
            /\ results' = results
       ELSE /\ pc' = "done"
            /\ error' = error
            /\ results' = list_sort(stores)
  /\ UNCHANGED <<stores, page, pending, rowsSeen, has_next, parsedPages, last>>

Next ==
  \/ \E n \in 0..MaxRows : FindListings(n)
  \/ \E row \in RawRows : ParseRow(row)
  \/ \E answer \in BOOLEAN : CanClickNext(answer)
  \/ ClickNext
  \/ ReturnResults

Spec == Init /\ [][Next]_vars

\* The page loop alone: rows that differ in seller, condition and whether the
\* price parses, with one quantity and no shipping texts
LoopRows ==
  { row \in RawRows : /\ row.price \in {"$0.10", "Call"}
                       /\ row.quantity = "4 available"
                       /\ row.shipping_price = Absent
                       /\ row.free_shipping = Absent }

LoopNext ==
  \/ \E n \in 0..MaxRows : FindListings(n)
  \/ \E row \in LoopRows : ParseRow(row)
  \/ \E answer \in BOOLEAN : CanClickNext(answer)
  \/ ClickNext
  \/ ReturnResults

\* scrape_prices is one sequential loop: no step of it waits on another
LiveSpec == Init /\ [][LoopNext]_vars /\ WF_vars(LoopNext)

(***************************************************************************)
(* Properties                                                              *)
(***************************************************************************)
StoreIndices == 1..Len(stores)

\* the step is one pass of the for loop; last' names the row it visited
RowStep == rowsSeen' = rowsSeen + 1

\* the step visited a row whose numeric texts parse, of a seller that is not
\* blacklisted and whose Store already held a Listing of the row's condition
RepeatStep ==
  /\ RowStep
  /\ error' # "AttributeError"
  /\ last'.seller \notin blacklist
  /\ \E i \in StoreIndices :
       /\ stores[i].name = last'.seller
       /\ \E k \in 1..Len(stores[i].listings) :
            stores[i].listings[k].condition.value = last'.condition

OneListingPerCondition(s) ==
  \A i, j \in 1..Len(s.listings) :
    s.listings[i].condition = s.listings[j].condition => i = j

\* C1: every Store holds at most one Listing per Condition, and a row for a
\* (seller, condition) pair already held leaves the held Listing, with the
\* price and quantity of the first accepted row, as the only one.
C1_DedupInvariant ==
  /\ [](\A i \in StoreIndices : OneListingPerCondition(stores[i]))
  /\ [][RepeatStep
          => \A i \in StoreIndices : stores'[i].listings = stores[i].listings]_vars

Totals(s) ==
  [card_price |-> card_price(s), shipping_price |-> shipping_price(s),
   total_price |-> total_price(s), total_quantity |-> total_quantity(s)]

AcmeRowOnly(s) ==
  /\ s.name = "Acme" /\ s.shipping = 399 /\ s.free_threshold = None
  /\ s.listings # <<>>
  /\ \A k \in 1..Len(s.listings) :
       /\ s.listings[k].condition.value = "Near Mint"
       /\ s.listings[k].price = 10
       /\ s.listings[k].quantity = 4

\* C2: a repeated row (same seller, same condition as a Listing already held)
\* changes no derived total of any Store; a run that carried only the row
\* (Acme, Near Mint, 0.10, 4) ends with one Listing, quantity 4, card price
\* 0.40 and total price 4.39.
C2_RepeatIsIdempotent ==
  /\ [][RepeatStep
          => /\ Len(stores') = Len(stores)
             /\ \A i \in StoreIndices :
                  /\ Totals(stores'[i]) = Totals(stores[i])
                  /\ RatEq(price_per_card(stores'[i]),
                           price_per_card(stores[i]))]_vars
  /\ [](pc = "done" /\ Len(results) = 1 /\ AcmeRowOnly(results[1])
          => /\ Len(results[1].listings) = 1
             /\ total_quantity(results[1]) = 4
             /\ card_price(results[1]) = 40
             /\ total_price(results[1]) = 439)

\* C3: in the returned list a Store with a smaller price per card comes
\* first, and among Stores of equal price per card the one with the larger
\* total quantity comes first.
C3_RankingOrder ==
  pc = "done" =>
    \A i, j \in 1..Len(results) :
      /\ RatLess(price_per_card(results[i]), price_per_card(results[j]))
           => i < j
      /\ ( /\ RatEq(price_per_card(results[i]), price_per_card(results[j]))
           /\ total_quantity(results[i]) > total_quantity(results[j]) )
           => i < j

\* C4: a blacklisted seller name is never a key of the mapping nor in the
\* returned ranking, and a row of a blacklisted seller leaves the mapping
\* unchanged.
C4_BlacklistNeverStored ==
  /\ [](/\ \A i \in StoreIndices : stores[i].name \notin blacklist
        /\ \A i \in 1..Len(results) : results[i].name \notin blacklist)
  /\ [][(RowStep /\ last'.seller \in blacklist) => stores' = stores]_vars

C4_Witness ==
  /\ pc = "done"
  /\ last.seller \in blacklist
  /\ "bad" \in keys(stores)
  /\ Len(results) = 1

\* C5: money_to_free_shipping is present exactly when a threshold is present
\* and card_price is below it, hence exactly when a threshold exists and free
\* shipping is not achieved; at card_price = threshold free shipping is
\* achieved, shipping_price is 0 and money_to_free_shipping is absent.
C5_MoneyToFreeShipping ==
  \A i \in StoreIndices :
    LET s == stores[i] IN
      /\ (money_to_free_shipping(s) # None)
           <=> (s.free_threshold # None /\ card_price(s) < s.free_threshold)
      /\ (money_to_free_shipping(s) # None)
           <=> (s.free_threshold # None /\ ~ achieved_free_shipping(s))
      /\ (s.free_threshold # None /\ card_price(s) = s.free_threshold)
           => /\ achieved_free_shipping(s)
              /\ shipping_price(s) = 0
              /\ money_to_free_shipping(s) = None

\* C6: shipping_price is 0 when a threshold is present and card_price has
\* reached it, and the flat shipping cost otherwise; total_price is card_price
\* plus shipping_price, and both follow the listings after every add_listing.
C6_ShippingAndTotal ==
  /\ [](\A i \in StoreIndices :
          LET s == stores[i] IN
            /\ shipping_price(s) =
                 (IF s.free_threshold # None /\ card_price(s) >= s.free_threshold
                    THEN 0 ELSE s.shipping)
            /\ achieved_free_shipping(s) =
                 (s.free_threshold # None /\ card_price(s) >= s.free_threshold)
            /\ total_price(s) = card_price(s) + shipping_price(s))
  /\ [][\A i \in 1..Len(stores') :
          LET before == IF i <= Len(stores) THEN stores[i]
                        ELSE Store(stores'[i].name, stores'[i].shipping,
                                   stores'[i].free_threshold)
          IN Len(stores'[i].listings) = Len(before.listings) + 1
               => LET l == stores'[i].listings[Len(stores'[i].listings)] IN
                    /\ card_price(stores'[i]) =
                         card_price(before) + l.price * l.quantity
                    /\ total_quantity(stores'[i]) =
                         total_quantity(before) + l.quantity
                    /\ total_price(stores'[i]) =
                         card_price(stores'[i]) + shipping_price(stores'[i])]_vars

C6_Witness ==
  /\ \E i \in StoreIndices :
       /\ stores[i].free_threshold # None
       /\ card_price(stores[i]) = stores[i].free_threshold
       /\ stores[i].shipping > 0
       /\ total_price(stores[i]) = card_price(stores[i])
  /\ \E i \in StoreIndices :
       /\ stores[i].free_threshold # None
       /\ Len(stores[i].listings) = 1
       /\ card_price(stores[i]) < stores[i].free_threshold
       /\ total_price(stores[i]) = card_price(stores[i]) + stores[i].shipping

\* the step visited a row whose condition text is none of the ten labels
UnknownConditionStep == RowStep /\ last'.condition \notin ConditionLabels

\* C7 as stated: a row whose condition text is none of the ten labels aborts
\* the run, whichever seller it belongs to, and an aborted run returns no
\* ranking.
C7_UnknownConditionAlwaysAborts ==
  /\ [][UnknownConditionStep => pc' = "aborted"]_vars
  /\ [](pc = "aborted" => results = <<>>)

\* C7: the numeric texts of a row are parsed before the blacklist filter, the
\* condition text only after the filter and the dedup check: a row with an
\* unknown condition text aborts the run with ValueError when its seller is
\* not blacklisted, is skipped without an error when its seller is
\* blacklisted, and an aborted run returns no ranking.
C7_UnknownConditionAbortsUnlessBlacklisted ==
  /\ [][UnknownConditionStep =>
          IF error' = "AttributeError"
            THEN pc' = "aborted" /\ stores' = stores
            ELSE IF last'.seller \in blacklist
              THEN pc' = "rows" /\ error' = "" /\ stores' = stores
              ELSE pc' = "aborted" /\ error' = "ValueError"]_vars
  /\ [](pc = "aborted" => results = <<>>)
  /\ [](error = "ValueError" =>
          /\ pc = "aborted"
          /\ last.seller \notin blacklist
          /\ last.condition \notin ConditionLabels)

C7_Witness ==
  /\ pc = "aborted"
  /\ error = "ValueError"
  /\ last.seller = "bad"
  /\ last.condition = "Mint"
  /\ Len(stores) = 2

\* C8: the rendering of a returned Store carries the hint line only when
\* free shipping is not achieved and the remaining amount is below the flat
\* shipping cost, so no rendering carries both the marker and the hint.
C8_HintOnlyBelowThreshold ==
  pc = "done" =>
    \A i \in 1..Len(results) :
      LET s == results[i] IN
        /\ HasLine(Store_str(s), "FREE SHIPPING IN")
             => /\ ~ achieved_free_shipping(s)
                /\ s.free_threshold - card_price(s) < s.shipping
        /\ ~ ( /\ HasLine(Store_str(s), "* FREE SHIPPING *")
               /\ HasLine(Store_str(s), "FREE SHIPPING IN") )

Upto(n) == [i \in 1..n |-> i]

\* C9: with finitely many pages the run ends, in DONE unless a row failed to
\* parse; the pages are parsed once each and in order, the navigator is asked
\* and advanced only when every row of the page is folded, and the ranking is
\* produced only after can_click_next answered false.
C9_PageLoop ==
  /\ <>(pc = "done" \/ error # "")
  /\ [](error # "" => pc = "aborted")
  /\ [](parsedPages = Upto(IF pc = "parse_page" THEN page - 1 ELSE page))
  /\ [](pc \in {"click_next", "return", "done"} => pending = 0)
  /\ [](pc = "click_next" => has_next)
  /\ [](pc \in {"return", "done"} => ~ has_next)
  /\ [](results # <<>> => pc = "done")
  /\ [][page' # page => pending = 0 /\ has_next /\ page' = page + 1]_vars
  /\ [][pc' = "done" => pc = "return" /\ ~ has_next /\ pending = 0]_vars

C9_Witness ==
  /\ pc = "done"
  /\ page = 2
  /\ parsedPages = <<1, 2>>
  /\ rowsSeen = 2
  /\ Len(results) = 2

\* C10: when the mapping is sorted every Store in it holds at least one
\* Listing and has a positive total quantity, so no comparison divides by
\* zero.
C10_NoEmptyStoreAtSort ==
  /\ pc \in {"return", "done"} =>
       \A i \in StoreIndices :
         /\ Len(stores[i].listings) >= 1
         /\ total_quantity(stores[i]) > 0
  /\ pc = "done" =>
       \A i \in 1..Len(results) : total_quantity(results[i]) > 0
  /\ error # "ZeroDivisionError"

C10_Witness ==
  /\ pc = "done"
  /\ Len(results) = 2
  /\ \E i \in 1..2 : Len(results[i].listings) = 1

====
